---- MODULE Spec2Model ----
(***************************************************************************)
(* Model of jakebowkett/go-logger: a Logger buffers entries per thread id  *)
(* in a sync.Map (logs) and emits one Log per End through the callbacks.   *)
(*                                                                         *)
(* Two variants of the Logger are in the repository:                       *)
(*   "logger"  package logger (OnError, uuid ids, insertEntry helper)      *)
(*   "log"     package log    (no OnError, gen.Base64 ids)                 *)
(* The variant is fixed at construction, like the configuration fields.    *)
(*                                                                         *)
(* Goroutines are the processes of Procs.  A step of a process is one      *)
(* access to shared memory (sync.Map Load/Store/Delete, a read or a write  *)
(* of one cell of a backing array, one callback) together with the local   *)
(* code around it: a loop over a slice and the copy append makes when it   *)
(* grows a slice take one step per cell.                                   *)
(* Slices are modelled as Go has them: a header (arr, len) into a backing  *)
(* array of fixed capacity, so that two headers can share cells.           *)
(*                                                                         *)
(* Not modelled (no state of the logger depends on them): Date, the call   *)
(* site fields Function/File/Line (getCallSite), EntryId and KeyVals.      *)
(***************************************************************************)
EXTENDS Integers, Sequences, FiniteSets, TLC

\* ------------------------------------------------------------------ bounds

\* Total number of calls (Info/Error/Debug, End, Sess, Session.End,
\* Session.SeenError) made on the logger in one behaviour.
MaxCalls == 3

\* The same, when a single goroutine makes all the calls.
MaxSeqCalls == 4

\* The same, when the behaviour starts after three Info calls for one id
\* (these three included): the id's array then has a free cell, which the
\* next append writes in place.
MaxDeepCalls == 6

Procs == {"g1", "g2"}

\* Ids callers pass to the Logger's methods directly.
ReqIds == {"x", "y"}

Messages == {"m"}
Routes == {"/a"}
Statuses == {200}
Durations == {7}
SessNames == {"job"}

\* ------------------------------------------------------- program constants

levelInfo == "Info"
levelError == "Error"
levelDebug == "Debug"
Levels == {levelInfo, levelError, levelDebug}

kindRequest == "request"
kindSession == "session"

\* What the id generator hands back when it fails (uuid.Nil's String()).
NilId == "00000000-0000-0000-0000-000000000000"

\* The outcomes of one run of the id generator: a fresh id, or a failure.
Generated == [id : ReqIds, err : {FALSE}] \cup {[id |-> NilId, err |-> TRUE]}

\* &Entry{}: the zero entry (also the content of an unused array cell,
\* where ptr = 0 stands for the nil pointer).
ZeroEntry == [ptr |-> 0, ThreadId |-> "", Level |-> "", Message |-> ""]

\* A nil slice.
NilSlice == [arr |-> 0, len |-> 0]

VARIABLES
    goroutines,     \* the goroutines that call into the logger
    variant,        \* "logger" or "log"
    OnLogEvent,     \* Logger.OnLogEvent /= nil
    OnError,        \* Logger.OnError /= nil (always FALSE in variant "log")
    DisableDebug,   \* Logger.DisableDebug
    logs,           \* Logger.logs: the keys present, each with a slice header
    heap,           \* the backing arrays of the slices, by array name
    sessions,       \* the Session handles created so far
    pc,             \* where each goroutine is
    cur,            \* the index in calls of each goroutine's current call
    e,              \* local e of logEntry / logUUIDError
    ee,             \* local entries/ee of insertEntry, end and SeenError
    idx,            \* position of the running loop: range ee, append's copy
    budget,         \* the number of calls a behaviour may make
    calls,          \* history: every call made, with its begin/return stamps
    clock,          \* history: number of call begins and returns so far
    emitted         \* history: the callback invocations, in order

config == <<goroutines, variant, OnLogEvent, OnError, DisableDebug, budget>>
vars == <<goroutines, variant, OnLogEvent, OnError, DisableDebug, budget,
          logs, heap, sessions, pc, cur, e, ee, idx, calls, clock,
          emitted>>

\* ---------------------------------------------------------------- helpers

Range(s) == {s[i] : i \in DOMAIN s}

\* Mutant of MapStore: the value is stored under every key of the map.
MapStoreShared(m, k, v) == [x \in DOMAIN m \cup {k} |-> v]

\* sync.Map.Store / Delete as values of the map.
MapStore(m, k, v) == [x \in DOMAIN m \cup {k} |-> IF x = k THEN v ELSE m[x]]

\* Mutant of MapDelete: every key is removed.
MapDeleteAll(m, k) == <<>>

\* Mutant of MapDelete: the key stays in the map.
MapDeleteKeeps(m, k) == m

MapDelete(m, k) == [x \in DOMAIN m \ {k} |-> m[x]]

\* cap(s) and the elements s[0:len(s)] as the backing array holds them now.
Cap(h, s) == IF s.arr = 0 THEN 0 ELSE Len(h[s.arr])
Contents(h, s) == IF s.arr = 0 THEN <<>> ELSE SubSeq(h[s.arr], 1, s.len)

\* The capacity growslice gives append(s, x) when len(s) = cap(s).
GrowCap(c) == IF c = 0 THEN 1 ELSE 2 * c

Padding(n) == [i \in 1..n |-> ZeroEntry]

\* []*Entry{x}: a fresh one-cell array, named after the entry.
SliceOfOne(x) == [arr |-> x.ptr, len |-> 1]
HeapOfOne(h, x) == h @@ (x.ptr :> <<x>>)

\* append(s, x) with no other goroutine writing to s's array meanwhile: in
\* place when there is room, else into a fresh array named after x.
InPlace(h, s) == s.len < Cap(h, s)
AppendSlice(h, s, x) ==
    IF s.len < Cap(h, s)
    THEN [arr |-> s.arr, len |-> s.len + 1]
    ELSE [arr |-> x.ptr, len |-> s.len + 1]
AppendHeap(h, s, x) ==
    IF s.len < Cap(h, s)
    THEN [h EXCEPT ![s.arr][s.len + 1] = x]
    ELSE h @@ (x.ptr :> (Contents(h, s) \o <<x>>
                         \o Padding(GrowCap(Cap(h, s)) - s.len - 1)))

\* Mutant of SuppressedLogger: the filter lets Debug through.
SuppressedNever(level) == FALSE

\* logEntry's early return: the level filter of each variant.
SuppressedLogger(level) == level = levelDebug /\ DisableDebug
SuppressedLog(level) == DisableDebug
Suppressed(level) ==
    IF variant = "logger" THEN SuppressedLogger(level) ELSE SuppressedLog(level)

\* The error entries of a drained sequence (end's loop over ee).
IsError(x) == x.Level = levelError
Errs(s) == SelectSeq(s, IsError)

\* ---------------------------------------------------------------- history

Call(p, op, level, kind, id, route, status, duration) ==
    [proc |-> p, op |-> op, level |-> level, kind |-> kind, threadId |-> id,
     route |-> route, status |-> status, duration |-> duration,
     beg |-> clock + 1, ret |-> 0, ptr |-> 0, loaded |-> <<>>,
     taken |-> <<>>, res |-> FALSE]

Returned(c) == c.ret > 0

Invocation(cb, call, c, entries) ==
    [cb |-> cb, call |-> call,
     log |-> [Kind |-> c.kind, ThreadId |-> c.threadId, Route |-> c.route,
              Status |-> c.status, Duration |-> c.duration,
              Entries |-> entries]]

\* ------------------------------------------------------------------- Init

\* The fields set at construction.
Constructed ==
    /\ variant \in {"logger", "log"}
    /\ OnLogEvent \in BOOLEAN
    /\ OnError \in (IF variant = "logger" THEN BOOLEAN ELSE {FALSE})
    /\ DisableDebug \in BOOLEAN

Configured ==
    /\ Constructed
    /\ logs = <<>>
    /\ heap = <<>>
    /\ sessions = {}
    /\ pc = [p \in Procs |-> "idle"]
    /\ cur = [p \in Procs |-> 0]
    /\ e = [p \in Procs |-> ZeroEntry]
    /\ ee = [p \in Procs |-> NilSlice]
    /\ idx = [p \in Procs |-> 0]
    /\ calls = <<>>
    /\ clock = 0
    /\ emitted = <<>>

\* Concurrent callers.
Init == goroutines = Procs /\ budget = MaxCalls /\ Configured

\* One caller: every call returns before the next begins.
InitSeq == goroutines = {"g1"} /\ budget = MaxSeqCalls /\ Configured

\* The state after g1 called Info("x", "m") three times, each call
\* returning before the next: the entries, the arrays insertEntry built
\* for them (of capacity 1, 2 and 4) and the history of the three calls.
DeepEntry(n) ==
    [ptr |-> n, ThreadId |-> "x", Level |-> levelInfo, Message |-> "m"]
DeepSlice1 == SliceOfOne(DeepEntry(1))
DeepHeap1 == HeapOfOne(<<>>, DeepEntry(1))
DeepSlice2 == AppendSlice(DeepHeap1, DeepSlice1, DeepEntry(2))
DeepHeap2 == AppendHeap(DeepHeap1, DeepSlice1, DeepEntry(2))
DeepSlice3 == AppendSlice(DeepHeap2, DeepSlice2, DeepEntry(3))
DeepHeap3 == AppendHeap(DeepHeap2, DeepSlice2, DeepEntry(3))
DeepCalls ==
    [n \in 1..3 |->
        [proc |-> "g1", op |-> "logEntry", level |-> levelInfo, kind |-> "",
         threadId |-> "x", route |-> "", status |-> 0, duration |-> 0,
         beg |-> 2 * n - 1, ret |-> 2 * n, ptr |-> n, loaded |-> <<>>,
         taken |-> <<>>, res |-> FALSE]]

\* What the three calls leave behind (they store nothing when logEntry
\* filters Info out, so the filter must let Info through).
Deep ==
    /\ ~Suppressed(levelInfo)
    /\ logs = MapStore(<<>>, "x", DeepSlice3)
    /\ heap = DeepHeap3
    /\ sessions = {}
    /\ pc = [p \in Procs |-> "idle"]
    /\ cur = [p \in Procs |-> IF p = "g1" THEN 3 ELSE 0]
    /\ e = [p \in Procs |-> ZeroEntry]
    /\ ee = [p \in Procs |-> NilSlice]
    /\ idx = [p \in Procs |-> 0]
    /\ calls = DeepCalls
    /\ clock = 6
    /\ emitted = <<>>

\* Concurrent callers, from the state Deep on.
InitDeep == goroutines = Procs /\ budget = MaxDeepCalls /\ Constructed /\ Deep

\* ---------------------------------------------------------------- actions

CanCall(p) == p \in goroutines /\ pc[p] = "idle" /\ Len(calls) < budget

\* The handle a call hands back: Sess's &Session{id, name, logger}.
Handles(c) ==
    IF c.op = "Sess" THEN {[id |-> c.threadId, name |-> c.route]} ELSE {}

\* The current call of p returns.
Return(p, cs) ==
    /\ calls' = [cs EXCEPT ![cur[p]].ret = clock + 1]
    /\ sessions' = sessions \cup Handles(cs[cur[p]])
    /\ clock' = clock + 1
    /\ pc' = [pc EXCEPT ![p] = "idle"]
    /\ e' = [e EXCEPT ![p] = ZeroEntry]
    /\ ee' = [ee EXCEPT ![p] = NilSlice]
    /\ idx' = [idx EXCEPT ![p] = 0]
    /\ cur' = cur

\* insertEntry up to and including l.logs.Load(e.ThreadId), for the call
\* history cs whose last element is the calling call.
InsertLoad(p, x, cs) ==
    /\ calls' = cs
    /\ clock' = clock + 1
    /\ cur' = [cur EXCEPT ![p] = Len(cs)]
    /\ e' = [e EXCEPT ![p] = x]
    /\ idx' = idx
    /\ IF x.ThreadId \in DOMAIN logs
       THEN /\ ee' = [ee EXCEPT ![p] = logs[x.ThreadId]]
            /\ pc' = [pc EXCEPT ![p] = "insert_append"]
       ELSE /\ ee' = [ee EXCEPT ![p] = NilSlice]
            /\ pc' = [pc EXCEPT ![p] = "insert_new"]

\* Info, Error, Debug (and the F forms) of Logger and of Session: logEntry
\* up to insertEntry's Load.
logEntry(p, level, threadId, msg) ==
    /\ CanCall(p)
    /\ LET c == Call(p, "logEntry", level, "", threadId, "", 0, 0)
           n == Len(calls) + 1
           x == [ptr |-> n, ThreadId |-> threadId, Level |-> level,
                 Message |-> msg]
       IN IF Suppressed(level)
          THEN /\ calls' = Append(calls, [c EXCEPT !.ret = clock + 2])
               /\ clock' = clock + 2
               /\ UNCHANGED <<pc, cur, e, ee, idx>>
          ELSE InsertLoad(p, x, Append(calls, [c EXCEPT !.ptr = n]))
    /\ UNCHANGED <<config, logs, heap, sessions, emitted>>

\* insertEntry, no sequence was loaded: l.logs.Store(id, []*Entry{e}).
insertNew(p) ==
    /\ pc[p] = "insert_new"
    /\ logs' = MapStore(logs, e[p].ThreadId, SliceOfOne(e[p]))
    /\ heap' = HeapOfOne(heap, e[p])
    /\ Return(p, calls)
    /\ UNCHANGED <<config, emitted>>

\* insertEntry, a sequence was loaded: ee = append(ee, e).  With room in
\* ee's array the entry is written into the cell after the last; without,
\* an array of the grown capacity is allocated for the copy.
insertAppend(p) ==
    /\ pc[p] = "insert_append"
    /\ IF InPlace(heap, ee[p])
       THEN /\ heap' = AppendHeap(heap, ee[p], e[p])
            /\ ee' = [ee EXCEPT ![p] = AppendSlice(heap, ee[p], e[p])]
            /\ pc' = [pc EXCEPT ![p] = "insert_store"]
       ELSE /\ heap' = heap @@ (e[p].ptr :> Padding(GrowCap(Cap(heap, ee[p]))))
            /\ ee' = ee
            /\ pc' = [pc EXCEPT ![p] = "insert_copy"]
    /\ UNCHANGED <<config, logs, sessions, cur, e, idx, calls, clock, emitted>>

\* append growing ee: one cell of the old array is copied to the new one;
\* after the last, e is written behind the copies and ee is the new slice.
insertCopy(p) ==
    /\ pc[p] = "insert_copy"
    /\ LET k == idx[p] + 1
           moved == [heap EXCEPT ![e[p].ptr][k] = heap[ee[p].arr][k]]
       IN IF k < ee[p].len
          THEN /\ heap' = moved
               /\ idx' = [idx EXCEPT ![p] = k]
               /\ UNCHANGED <<ee, pc>>
          ELSE /\ heap' = [moved EXCEPT ![e[p].ptr][k + 1] = e[p]]
               /\ idx' = [idx EXCEPT ![p] = 0]
               /\ ee' = [ee EXCEPT ![p] = [arr |-> e[p].ptr, len |-> k + 1]]
               /\ pc' = [pc EXCEPT ![p] = "insert_store"]
    /\ UNCHANGED <<config, logs, sessions, cur, e, calls, clock, emitted>>

\* insertEntry, a sequence was loaded: l.logs.Store(id, ee).
insertStore(p) ==
    /\ pc[p] = "insert_store"
    /\ logs' = MapStore(logs, e[p].ThreadId, ee[p])
    /\ Return(p, calls)
    /\ UNCHANGED <<config, heap, emitted>>

\* Mutant of Emissions: the session check is missing.
EmissionsOfEmptySession(call, c, s) ==
    LET errs == IF OnError THEN Errs(s) ELSE <<>>
        toErr == IF errs /= <<>>
                 THEN <<Invocation("OnError", call, c, errs)>>
                 ELSE <<>>
        entries == IF errs /= <<>> THEN errs ELSE s
        toMain == IF OnLogEvent
                  THEN <<Invocation("OnLogEvent", call, c, entries)>>
                  ELSE <<>>
    IN toErr \o toMain

\* Mutant of Emissions: the check for no entries leaves the kind out.
EmissionsNoneWhenEmpty(call, c, s) ==
    IF Len(s) = 0
    THEN <<>>
    ELSE EmissionsOfEmptySession(call, c, s)

\* end from the session check on, for the entries s the call drained: the
\* callback invocations it makes, in order, when nothing writes to ee's
\* array in between.
Emissions(call, c, s) ==
    IF c.kind = kindSession /\ Len(s) = 0
    THEN <<>>
    ELSE LET errs == IF OnError THEN Errs(s) ELSE <<>>
             toErr == IF errs /= <<>>
                      THEN <<Invocation("OnError", call, c, errs)>>
                      ELSE <<>>
             entries == IF errs /= <<>> THEN errs ELSE s
             toMain == IF OnLogEvent
                       THEN <<Invocation("OnLogEvent", call, c, entries)>>
                       ELSE <<>>
         IN toErr \o toMain

\* Mutant of end: a finish that loads nothing leaves an empty sequence
\* in the map.
endStoresEmpty(p, kind, threadId, route, status, duration) ==
    /\ CanCall(p)
    /\ LET c == Call(p, "end", "", kind, threadId, route, status, duration)
           n == Len(calls) + 1
       IN /\ clock' = clock + 1
          /\ cur' = [cur EXCEPT ![p] = n]
          /\ IF threadId \in DOMAIN logs
             THEN /\ calls' = Append(calls,
                        [c EXCEPT !.loaded = Contents(heap, logs[threadId])])
                  /\ ee' = [ee EXCEPT ![p] = logs[threadId]]
                  /\ pc' = [pc EXCEPT ![p] = "end_delete"]
                  /\ UNCHANGED logs
             ELSE /\ calls' = Append(calls, c)
                  /\ ee' = [ee EXCEPT ![p] = NilSlice]
                  /\ pc' = [pc EXCEPT ![p] = "end_scan"]
                  /\ logs' = MapStore(logs, threadId, NilSlice)
    /\ UNCHANGED <<config, heap, sessions, e, idx, emitted>>

\* end up to l.logs.Load(threadId); with nothing loaded ee stays nil and
\* the Delete is skipped.  The history keeps the sequence the map held for
\* the id at the Load.
end(p, kind, threadId, route, status, duration) ==
    /\ CanCall(p)
    /\ LET c == Call(p, "end", "", kind, threadId, route, status, duration)
           n == Len(calls) + 1
       IN /\ clock' = clock + 1
          /\ cur' = [cur EXCEPT ![p] = n]
          /\ IF threadId \in DOMAIN logs
             THEN /\ calls' = Append(calls,
                        [c EXCEPT !.loaded = Contents(heap, logs[threadId])])
                  /\ ee' = [ee EXCEPT ![p] = logs[threadId]]
                  /\ pc' = [pc EXCEPT ![p] = "end_delete"]
             ELSE /\ calls' = Append(calls, c)
                  /\ ee' = [ee EXCEPT ![p] = NilSlice]
                  /\ pc' = [pc EXCEPT ![p] = "end_scan"]
    /\ UNCHANGED <<config, logs, heap, sessions, e, idx, emitted>>

\* Logger.End
End(p, reqId, route, status, duration) ==
    end(p, kindRequest, reqId, route, status, duration)

\* Session.End
SessEnd(p, s) ==
    /\ s \in sessions
    /\ end(p, kindSession, s.id, s.name, 0, 0)

\* end: l.logs.Delete(threadId).
endDelete(p) ==
    /\ pc[p] = "end_delete"
    /\ logs' = MapDelete(logs, calls[cur[p]].threadId)
    /\ pc' = [pc EXCEPT ![p] = "end_scan"]
    /\ UNCHANGED <<config, heap, sessions, cur, e, ee, idx, calls, clock, emitted>>

\* Where end goes after the session check and the scan, for the
\* invocations all it is to make: to its first callback, or to its return.
AfterScan(all) ==
    IF all = <<>> THEN "end_ret"
    ELSE IF all[1].cb = "OnError" THEN "end_emit"
    ELSE "end_main"

\* end after the Load and the Delete: the session check and, with OnError
\* set, the loop over ee, which reads one cell of ee's array per step
\* (taken holds the cells read).  With OnError nil end reads no cell; the
\* history then keeps the cells as they are at this step.
endScan(p) ==
    /\ pc[p] = "end_scan"
    /\ IF OnError /\ idx[p] < ee[p].len
       THEN LET k == idx[p] + 1
                c == calls[cur[p]]
                s == Append(c.taken, heap[ee[p].arr][k])
                cs == [calls EXCEPT ![cur[p]].taken = s]
            IN /\ calls' = cs
               /\ idx' = [idx EXCEPT ![p] = IF k < ee[p].len THEN k ELSE 0]
               /\ pc' = [pc EXCEPT ![p] =
                            IF k < ee[p].len
                            THEN "end_scan"
                            ELSE AfterScan(Emissions(cur[p], cs[cur[p]], s))]
       ELSE LET s == Contents(heap, ee[p])
                cs == [calls EXCEPT ![cur[p]].taken = s]
            IN /\ calls' = cs
               /\ idx' = idx
               /\ pc' = [pc EXCEPT ![p] =
                            AfterScan(Emissions(cur[p], cs[cur[p]], s))]
    /\ UNCHANGED <<config, logs, heap, sessions, cur, e, ee, clock, emitted>>

\* end: l.OnError(log) with log.Entries = errs, the errors the scan found.
endEmit(p) ==
    /\ pc[p] = "end_emit"
    /\ LET c == calls[cur[p]]
           all == Emissions(cur[p], c, c.taken)
           toErr == SelectSeq(all, LAMBDA v : v.cb = "OnError")
           toMain == SelectSeq(all, LAMBDA v : v.cb = "OnLogEvent")
       IN /\ emitted' = emitted \o toErr
          /\ pc' = [pc EXCEPT ![p] = IF toMain /= <<>> THEN "end_main"
                                                       ELSE "end_ret"]
    /\ UNCHANGED <<config, logs, heap, sessions, cur, e, ee, idx, calls, clock>>

\* end: l.OnLogEvent(log). log.Entries is errs when the scan found an
\* error, and ee, read now, when it did not.
endMain(p) ==
    /\ pc[p] = "end_main"
    /\ LET c == calls[cur[p]]
           errs == IF OnError THEN Errs(c.taken) ELSE <<>>
           entries == IF errs /= <<>> THEN errs ELSE Contents(heap, ee[p])
       IN emitted' = Append(emitted,
                            Invocation("OnLogEvent", cur[p], c, entries))
    /\ pc' = [pc EXCEPT ![p] = "end_ret"]
    /\ UNCHANGED <<config, logs, heap, sessions, cur, e, ee, idx, calls, clock>>

\* end returns.
endRet(p) ==
    /\ pc[p] = "end_ret"
    /\ Return(p, calls)
    /\ UNCHANGED <<config, logs, heap, emitted>>

\* Mutant of Sess: a failure of the generator is not logged.
SessSilent(p, name, g) ==
    /\ CanCall(p)
    /\ LET c == Call(p, "Sess", "", "", g.id, name, 0, 0)
       IN /\ calls' = Append(calls, [c EXCEPT !.ret = clock + 2])
          /\ clock' = clock + 2
          /\ sessions' = sessions \cup Handles(c)
          /\ UNCHANGED <<pc, cur, e, ee, idx>>
    /\ UNCHANGED <<config, logs, heap, emitted>>

\* Logger.Sess: NewId and the new handle.  In variant "logger" a failure
\* of the generator goes through logUUIDError into insertEntry; variant
\* "log" discards the generator's error.
Sess(p, name, g) ==
    /\ CanCall(p)
    /\ LET c == Call(p, "Sess", "", "", g.id, name, 0, 0)
           n == Len(calls) + 1
           x == [ptr |-> n, ThreadId |-> "", Level |-> levelError,
                 Message |-> "couldn't generate UUID for logger thread"]
       IN IF g.err /\ variant = "logger"
          THEN /\ InsertLoad(p, x, Append(calls, [c EXCEPT !.ptr = n]))
               /\ UNCHANGED sessions
          ELSE /\ calls' = Append(calls, [c EXCEPT !.ret = clock + 2])
               /\ clock' = clock + 2
               /\ sessions' = sessions \cup Handles(c)
               /\ UNCHANGED <<pc, cur, e, ee, idx>>
    /\ UNCHANGED <<config, logs, heap, emitted>>

\* Mutant of HasError: an entry of any level counts.
HasErrorAnyLevel(s) == s /= <<>>

\* SeenError's test e.Level == "Error", of the cells s its loop has read.
HasError(s) == \E k \in DOMAIN s : s[k].Level = "Error"

\* Session.SeenError (package logger only) up to s.logger.logs.Load(s.id);
\* with nothing loaded it returns false.
SeenError(p, s) ==
    /\ CanCall(p)
    /\ variant = "logger"
    /\ s \in sessions
    /\ LET c == Call(p, "SeenError", "", "", s.id, s.name, 0, 0)
           n == Len(calls) + 1
       IN IF s.id \in DOMAIN logs
          THEN /\ calls' = Append(calls, c)
               /\ clock' = clock + 1
               /\ cur' = [cur EXCEPT ![p] = n]
               /\ ee' = [ee EXCEPT ![p] = logs[s.id]]
               /\ pc' = [pc EXCEPT ![p] = "seen_scan"]
               /\ UNCHANGED <<e, idx>>
          ELSE /\ calls' = Append(calls, [c EXCEPT !.ret = clock + 2])
               /\ clock' = clock + 2
               /\ UNCHANGED <<pc, cur, e, ee, idx>>
    /\ UNCHANGED <<config, logs, heap, sessions, emitted>>

\* Mutant of seenScan: the peek takes the sequence out of the map.
seenScanTakes(p) ==
    /\ pc[p] = "seen_scan"
    /\ logs' = MapDelete(logs, calls[cur[p]].threadId)
    /\ LET k == idx[p] + 1
           s == Append(calls[cur[p]].taken, heap[ee[p].arr][k])
           cs == [calls EXCEPT ![cur[p]].taken = s,
                               ![cur[p]].res = HasError(s)]
       IN IF HasError(s) \/ k = ee[p].len
          THEN Return(p, cs)
          ELSE /\ calls' = cs
               /\ idx' = [idx EXCEPT ![p] = k]
               /\ UNCHANGED <<sessions, pc, cur, e, ee, clock>>
    /\ UNCHANGED <<config, heap, emitted>>

\* SeenError's loop over the loaded ee: one cell of ee's array is read per
\* step (taken holds the cells read); the call returns true at the first
\* entry of level "Error", false after the last cell.
seenScan(p) ==
    /\ pc[p] = "seen_scan"
    /\ LET k == idx[p] + 1
           s == Append(calls[cur[p]].taken, heap[ee[p].arr][k])
           cs == [calls EXCEPT ![cur[p]].taken = s,
                               ![cur[p]].res = HasError(s)]
       IN IF HasError(s) \/ k = ee[p].len
          THEN Return(p, cs)
          ELSE /\ calls' = cs
               /\ idx' = [idx EXCEPT ![p] = k]
               /\ UNCHANGED <<sessions, pc, cur, e, ee, clock>>
    /\ UNCHANGED <<config, logs, heap, emitted>>

\* The ids record calls are made with: a caller's own, or a session's.
RecordIds == ReqIds \cup {s.id : s \in sessions}

Next ==
    \/ \E p \in Procs, level \in Levels, id \in RecordIds, msg \in Messages :
          logEntry(p, level, id, msg)
    \/ \E p \in Procs : insertNew(p)
    \/ \E p \in Procs : insertAppend(p)
    \/ \E p \in Procs : insertCopy(p)
    \/ \E p \in Procs : insertStore(p)
    \/ \E p \in Procs, id \in ReqIds, route \in Routes, status \in Statuses,
          duration \in Durations : End(p, id, route, status, duration)
    \/ \E p \in Procs, s \in sessions : SessEnd(p, s)
    \/ \E p \in Procs : endDelete(p)
    \/ \E p \in Procs : endScan(p)
    \/ \E p \in Procs : endEmit(p)
    \/ \E p \in Procs : endMain(p)
    \/ \E p \in Procs : endRet(p)
    \/ \E p \in Procs, name \in SessNames, g \in Generated : Sess(p, name, g)
    \/ \E p \in Procs, s \in sessions : SeenError(p, s)
    \/ \E p \in Procs : seenScan(p)

Spec == Init /\ [][Next]_vars
SpecSeq == InitSeq /\ [][Next]_vars
SpecDeep == InitDeep /\ [][Next]_vars

\* ----------------------------------------------------- reading the history

Records == {i \in DOMAIN calls : calls[i].op = "logEntry"}
Ends == {i \in DOMAIN calls : calls[i].op = "end"}

\* The record calls that built an entry (were not filtered out) for id.
Built(id) == {i \in Records : calls[i].threadId = id /\ calls[i].ptr /= 0}

\* Call i returned before call j began.
Before(i, j) == Returned(calls[i]) /\ calls[i].ret < calls[j].beg

\* Calls i and j were in progress at the same time.
Overlap(i, j) == i /= j /\ ~Before(i, j) /\ ~Before(j, i)

Ptrs(s) == {s[k].ptr : k \in DOMAIN s}
NoDuplicates(s) == \A k, l \in DOMAIN s : s[k].ptr = s[l].ptr => k = l

\* The callback invocations made by end call f.
MainOf(f) == {j \in DOMAIN emitted :
                 emitted[j].cb = "OnLogEvent" /\ emitted[j].call = f}
ErrorOf(f) == {j \in DOMAIN emitted :
                  emitted[j].cb = "OnError" /\ emitted[j].call = f}

\* The entries buffered for id now.
Buffered(id) == IF id \in DOMAIN logs THEN Contents(heap, logs[id]) ELSE <<>>

\* The entries a finish for id that has loaded and not yet returned holds.
Held(id) ==
    UNION {Ptrs(Contents(heap, ee[p])) :
             p \in {q \in Procs : /\ pc[q] \in {"end_delete", "end_scan", "end_emit",
                                               "end_main", "end_ret"}
                                  /\ calls[cur[q]].threadId = id}}

\* The entries the returned finishes for id drained.
Drained(id) ==
    UNION {Ptrs(calls[f].taken) : f \in {g \in Ends : calls[g].threadId = id}}

\* ------------------------------------------------------------------ claims

\* C1: when every record call for an id returned before the only finish
\* for that id began, the aggregate that finish passes to OnLogEvent holds
\* each recorded entry exactly once (stated with no error callback set, so
\* that the aggregate is the drained sequence).
C1_ConcurrentAppendsAllEmitted ==
    \A j \in DOMAIN emitted :
        LET m == emitted[j]
            f == m.call
            id == calls[f].threadId
        IN (/\ m.cb = "OnLogEvent"
            /\ ~OnError
            /\ \A i \in Built(id) : Before(i, f)
            /\ \A g \in Ends : calls[g].threadId = id => g = f)
           => /\ Ptrs(m.log.Entries) = Built(id)
              /\ Len(m.log.Entries) = Cardinality(Built(id))

\* C2: in package logger, a record call that overlapped no other record
\* call for its id is never dropped: once it has returned, its entry is
\* buffered for the id, held by a finish in progress, or in the sequence a
\* finish drained.
C2_RacingRecordNeverDropped ==
    \A i \in Records :
        LET id == calls[i].threadId
        IN (/\ variant = "logger"
            /\ calls[i].ptr /= 0
            /\ Returned(calls[i])
            /\ \A k \in Built(id) : ~Overlap(i, k))
           => i \in Ptrs(Buffered(id)) \cup Held(id) \cup Drained(id)

\* C3: in package logger, no entry is in the aggregates of two
\* invocations of OnLogEvent.
C3_FlushExactlyOnce ==
    \A j, k \in DOMAIN emitted :
        (/\ variant = "logger"
         /\ j /= k
         /\ emitted[j].cb = "OnLogEvent"
         /\ emitted[k].cb = "OnLogEvent")
        => Ptrs(emitted[j].log.Entries) \cap Ptrs(emitted[k].log.Entries) = {}

\* C4: with both callbacks set, a finish that drained an Error entry and a
\* non-Error entry passes the Error entries, in order, to OnError and the
\* whole drained sequence to OnLogEvent.
C4_ErrorCallbackIsolation ==
    \A f \in Ends :
        (/\ Returned(calls[f])
         /\ OnError /\ OnLogEvent
         /\ \E k \in DOMAIN calls[f].taken : IsError(calls[f].taken[k])
         /\ \E k \in DOMAIN calls[f].taken : ~IsError(calls[f].taken[k]))
        => /\ \E j \in ErrorOf(f) :
                 emitted[j].log.Entries = Errs(calls[f].taken)
           /\ \E j \in MainOf(f) : emitted[j].log.Entries = calls[f].taken

\* C5: a finish of kind Session that drained nothing invokes no callback.
C5_SessionSuppression ==
    \A f \in Ends :
        (/\ Returned(calls[f])
         /\ calls[f].kind = kindSession
         /\ calls[f].taken = <<>>)
        => MainOf(f) \cup ErrorOf(f) = {}

C5_Witness ==
    \E f \in Ends :
        /\ Returned(calls[f])
        /\ calls[f].kind = kindSession
        /\ calls[f].taken = <<>>
        /\ OnLogEvent /\ OnError

\* C6: with OnLogEvent set, a finish of kind Request invokes OnLogEvent
\* exactly once, with the threadId, route, status and duration it was
\* called with, and with no entries when no entry was built for the id
\* before it returned.
C6_RequestAlwaysEmitted ==
    \A f \in Ends :
        (/\ Returned(calls[f])
         /\ calls[f].kind = kindRequest
         /\ OnLogEvent)
        => /\ Cardinality(MainOf(f)) = 1
           /\ \A j \in MainOf(f) :
                 /\ emitted[j].log.Kind = kindRequest
                 /\ emitted[j].log.ThreadId = calls[f].threadId
                 /\ emitted[j].log.Route = calls[f].route
                 /\ emitted[j].log.Status = calls[f].status
                 /\ emitted[j].log.Duration = calls[f].duration
                 /\ (\A i \in Built(calls[f].threadId) :
                        calls[i].beg > calls[f].ret)
                    => emitted[j].log.Entries = <<>>

C6_Witness ==
    \E f \in Ends :
        /\ Returned(calls[f])
        /\ calls[f].kind = kindRequest
        /\ Built(calls[f].threadId) = {}
        /\ \E j \in MainOf(f) : emitted[j].log.Entries = <<>>

\* C7: with debug output disabled a Debug record call returns at once
\* without building an entry, and no Debug entry is ever buffered, held by
\* a goroutine, or passed to a callback.
C7_DebugSuppression ==
    DisableDebug =>
        /\ \A i \in Records :
              calls[i].level = levelDebug
              => calls[i].ptr = 0 /\ Returned(calls[i])
        /\ \A id \in DOMAIN logs : \A k \in DOMAIN Buffered(id) :
              Buffered(id)[k].Level /= levelDebug
        /\ \A p \in Procs : e[p].Level /= levelDebug
        /\ \A j \in DOMAIN emitted : \A k \in DOMAIN emitted[j].log.Entries :
              emitted[j].log.Entries[k].Level /= levelDebug

C7_Witness ==
    /\ DisableDebug
    /\ variant = "logger"
    /\ \E i \in Records, f \in Ends :
          /\ calls[i].level = levelDebug
          /\ calls[i].threadId = calls[f].threadId
          /\ Before(i, f)
          /\ \E j \in MainOf(f) : emitted[j].log.Entries /= <<>>

\* C8: an Info or Error record call that has returned built an entry, and
\* the entry is buffered for its id or was drained by a finish (one
\* goroutine, so no call overlaps another).
C8_InfoAndErrorAlwaysRecorded ==
    \A i \in Records :
        (Returned(calls[i]) /\ calls[i].level \in {levelInfo, levelError})
        => /\ calls[i].ptr = i
           /\ i \in Ptrs(Buffered(calls[i].threadId)) \cup Held(calls[i].threadId)
                    \cup Drained(calls[i].threadId)

\* The record calls for the id of finish f made since the finish for that
\* id before f.
Since(f) ==
    {i \in Built(calls[f].threadId) :
        /\ i < f
        /\ \A g \in Ends : (g < f /\ calls[g].threadId = calls[f].threadId)
                            => g < i}

\* The strictly increasing sequence of the numbers in S.
RECURSIVE Sorted(_)
Sorted(S) ==
    IF S = {} THEN <<>>
    ELSE LET x == CHOOSE y \in S : \A z \in S : y <= z
         IN <<x>> \o Sorted(S \ {x})

PtrSeq(s) == [k \in DOMAIN s |-> s[k].ptr]

\* C9: with one goroutine, a finish passes to OnLogEvent exactly the
\* entries of the record calls made for its id since the previous finish
\* for that id, in call order.
C9_AppendOrdering ==
    \A f \in Ends :
        (Returned(calls[f]) /\ OnLogEvent /\ Since(f) /= {})
        => \E j \in MainOf(f) : PtrSeq(emitted[j].log.Entries) = Sorted(Since(f))

\* The same of the sequence the finish drained, whatever the callbacks.
DrainedInCallOrder ==
    \A f \in Ends :
        Returned(calls[f]) => PtrSeq(calls[f].taken) = Sorted(Since(f))

\* Finish g follows finish f for the same id with no record call for the
\* id in progress or made in between.
InARow(f, g) ==
    /\ calls[f].threadId = calls[g].threadId
    /\ Before(f, g)
    /\ \A i \in Built(calls[f].threadId) :
          Before(i, f) \/ (Returned(calls[g]) /\ calls[i].beg > calls[g].ret)

\* C10: the second of two finishes in a row for an id drains nothing; of
\* kind Session it invokes no callback, of kind Request it invokes
\* OnLogEvent (when set) with no entries, and never OnError.
C10_RepeatedFinish ==
    \A f, g \in Ends :
        (InARow(f, g) /\ Returned(calls[g]))
        => /\ calls[g].taken = <<>>
           /\ ErrorOf(g) = {}
           /\ calls[g].kind = kindSession => MainOf(g) = {}
           /\ (calls[g].kind = kindRequest /\ OnLogEvent)
              => /\ MainOf(g) /= {}
                 /\ \A j \in MainOf(g) : emitted[j].log.Entries = <<>>

C10_Witness ==
    \E f, g \in Ends :
        /\ InARow(f, g)
        /\ Returned(calls[g])
        /\ calls[f].taken /= <<>>
        /\ calls[g].kind = kindRequest
        /\ MainOf(g) /= {}

Peeks == {i \in DOMAIN calls : calls[i].op = "SeenError"}
Sesss == {i \in DOMAIN calls : calls[i].op = "Sess"}

\* Call i is the last call made and every other call returned before it
\* began: nothing has run since i began but i itself.
Alone(i) == \A k \in DOMAIN calls : k /= i => Before(k, i)

\* C11: a SeenError call that ran alone returned true iff the sequence
\* buffered for the handle's id holds an entry of level Error (false when
\* nothing is buffered).
C11_SeenErrorPeek ==
    \A i \in Peeks :
        (Returned(calls[i]) /\ Alone(i))
        => (calls[i].res <=> \E k \in DOMAIN Buffered(calls[i].threadId) :
                                 IsError(Buffered(calls[i].threadId)[k]))

\* An Error entry is buffered under the handle's id, no finish was called,
\* and SeenError returned true.
C11_Witness ==
    \E i \in Peeks :
        /\ Returned(calls[i]) /\ Alone(i)
        /\ calls[i].res
        /\ Ends = {}
        /\ \E k \in DOMAIN Buffered(calls[i].threadId) :
              IsError(Buffered(calls[i].threadId)[k])

\* A step of a SeenError call: its begin (with the Load) or its scan.
SeenErrorStep ==
    \/ /\ Len(calls') = Len(calls) + 1
       /\ calls'[Len(calls')].op = "SeenError"
    \/ \E p \in Procs :
          pc[p] = "seen_scan" /\ (pc'[p] /= pc[p] \/ idx'[p] /= idx[p])

\* C12: no step of SeenError changes the map, the backing arrays or what
\* was passed to the callbacks.
C12_SeenErrorChangesNothing ==
    [][SeenErrorStep => UNCHANGED <<logs, heap, emitted, sessions>>]_vars

\* SeenError scanned a buffered sequence that is still buffered.
C12_Witness ==
    \E i \in Peeks :
        /\ Returned(calls[i])
        /\ calls[i].taken /= <<>>
        /\ Buffered(calls[i].threadId) = calls[i].taken

\* C13: in package logger, a Sess call whose generator failed returns a
\* handle with the id the generator gave, after building one entry of
\* level Error with an empty ThreadId; the entry is buffered under "" once
\* the call has returned, unless another such call overlapped it.
C13_IdFailureNotFatal ==
    \A i \in Sesss :
        (/\ variant = "logger"
         /\ Returned(calls[i])
         /\ calls[i].threadId = NilId)
        => /\ [id |-> NilId, name |-> calls[i].route] \in sessions
           /\ calls[i].ptr = i
           /\ (\A k \in Sesss : calls[k].ptr /= 0 => ~Overlap(i, k))
              => \E k \in DOMAIN Buffered("") :
                    Buffered("")[k] =
                       [ptr |-> i, ThreadId |-> "", Level |-> levelError,
                        Message |-> "couldn't generate UUID for logger thread"]

\* After a failed generator the handle is used: an entry is recorded with
\* it and buffered under the handle's id.
C13_Witness ==
    \E i \in Sesss, r \in Records :
        /\ variant = "logger"
        /\ calls[i].threadId = NilId
        /\ Before(i, r)
        /\ calls[r].threadId = NilId
        /\ Returned(calls[r])
        /\ r \in Ptrs(Buffered(NilId))
        /\ i \in Ptrs(Buffered(""))

\* A step that begins a finish for an id the map has no sequence for.
EndMissStep ==
    /\ Len(calls') = Len(calls) + 1
    /\ calls'[Len(calls')].op = "end"
    /\ calls'[Len(calls')].threadId \notin DOMAIN logs

\* A later step of goroutine p in a finish whose Load found nothing.
MissStep(p) ==
    /\ pc[p] \in {"end_scan", "end_emit", "end_main", "end_ret"}
    /\ pc'[p] /= pc[p]
    /\ ee[p] = NilSlice

\* C14: a finish for an id with nothing in the map changes neither the map
\* nor the backing arrays at any of its steps; of kind Request it passes
\* one aggregate of no entries to OnLogEvent (when set) before it returns,
\* of kind Session it invokes nothing, and OnError is not invoked.
C14_FinishOfUnknownId ==
    [][/\ EndMissStep => UNCHANGED <<logs, heap, sessions, emitted>>
       /\ \A p \in Procs :
             MissStep(p)
             => LET f == cur[p]
                    c == calls[f]
                    emits == c.kind = kindRequest /\ OnLogEvent
                IN /\ UNCHANGED <<logs, heap>>
                   /\ c.taken = <<>>
                   /\ \/ emitted' = emitted
                      \/ /\ emits
                         /\ emitted' = Append(emitted,
                               Invocation("OnLogEvent", f, c, <<>>))
                   /\ pc[p] = "end_ret"
                      => /\ Returned(calls'[f])
                         /\ ErrorOf(f) = {}
                         /\ Cardinality(MainOf(f)) = IF emits THEN 1 ELSE 0]_vars

\* A finish of kind Request that loaded nothing emitted an aggregate of no
\* entries and returned while another id stayed buffered.
C14_Witness ==
    \E f \in Ends :
        /\ Returned(calls[f])
        /\ calls[f].kind = kindRequest
        /\ calls[f].taken = <<>>
        /\ \E j \in MainOf(f) : emitted[j].log.Entries = <<>>
        /\ \E id \in DOMAIN logs :
              /\ id /= calls[f].threadId
              /\ \E i \in Built(id) : Before(i, f) /\ i \in Ptrs(Buffered(id))

\* The finish for x loaded nothing; its OnLogEvent came after the other
\* goroutine had stored an entry under x and finished y.
C14_LateEmission ==
    \E j, k \in DOMAIN emitted :
        /\ j < k
        /\ emitted[k].log.Entries = <<>>
        /\ emitted[k].call < emitted[j].call
        /\ emitted[k].log.ThreadId \in DOMAIN logs

\* The first finish for the id of record call r that began after r
\* returned.
NextEnd(r) ==
    {g \in Ends :
        /\ calls[g].threadId = calls[r].threadId
        /\ Before(r, g)
        /\ \A h \in Ends :
              (calls[h].threadId = calls[r].threadId /\ Before(r, h)) => g <= h}

\* C15: in package logger with one goroutine, a record call made for an id
\* after a finish for it returned builds an entry that is in no aggregate
\* of an earlier call, stays buffered under the id until the next finish
\* for the id, and is in the aggregate that finish passes to OnLogEvent.
C15_RecordAfterFinish ==
    \A f \in Ends, r \in Records :
        (/\ variant = "logger"
         /\ calls[f].threadId = calls[r].threadId
         /\ Before(f, r)
         /\ Returned(calls[r])
         /\ ~Suppressed(calls[r].level))
        => /\ calls[r].ptr = r
           /\ \A j \in DOMAIN emitted :
                 emitted[j].call < r => r \notin Ptrs(emitted[j].log.Entries)
           /\ NextEnd(r) = {} => r \in Ptrs(Buffered(calls[r].threadId))
           /\ \A g \in NextEnd(r) :
                 (Returned(calls[g]) /\ OnLogEvent)
                 => \E j \in MainOf(g) : r \in Ptrs(emitted[j].log.Entries)

\* The same up to the drain: the later finish takes the entry out of the
\* map, whatever it passes to the callbacks.
C15_DrainedByNextEnd ==
    \A f \in Ends, r \in Records :
        (/\ variant = "logger"
         /\ calls[f].threadId = calls[r].threadId
         /\ Before(f, r)
         /\ Returned(calls[r])
         /\ ~Suppressed(calls[r].level))
        => /\ calls[r].ptr = r
           /\ NextEnd(r) = {} => r \in Ptrs(Buffered(calls[r].threadId))
           /\ \A g \in NextEnd(r) :
                 Returned(calls[g]) => r \in Ptrs(calls[g].taken)

\* C16: a finish that returned invoked OnError iff OnError is set and the
\* sequence it loaded from the map holds an entry of level Error; a finish
\* invokes OnError at most once, with Error entries only, and before its
\* OnLogEvent.
C16_ErrorCallback ==
    \A f \in Ends :
        /\ Returned(calls[f])
           => (ErrorOf(f) /= {} <=> (OnError /\ HasError(calls[f].loaded)))
        /\ Cardinality(ErrorOf(f)) <= 1
        /\ \A j \in ErrorOf(f) :
              /\ \A k \in DOMAIN emitted[j].log.Entries :
                    IsError(emitted[j].log.Entries[k])
              /\ \A m \in MainOf(f) : j < m

\* The same of the cells the finish's loop read instead of the sequence it
\* loaded: OnError is invoked iff one of them is an Error, with exactly the
\* Error entries among them.
C16_OfCellsRead ==
    \A f \in Ends :
        /\ ErrorOf(f) /= {} => (OnError /\ HasError(calls[f].taken))
        /\ Returned(calls[f])
           => ((OnError /\ HasError(calls[f].taken)) => ErrorOf(f) /= {})
        /\ Cardinality(ErrorOf(f)) <= 1
        /\ \A j \in ErrorOf(f) :
              /\ emitted[j].log.Entries = Errs(calls[f].taken)
              /\ \A k \in DOMAIN emitted[j].log.Entries :
                    IsError(emitted[j].log.Entries[k])
              /\ \A m \in MainOf(f) : j < m

\* Between the OnError and the OnLogEvent of one finish the other
\* goroutine's finish invoked a callback.
C16_ForeignBetween ==
    \E f \in Ends :
        \E j \in ErrorOf(f), m \in MainOf(f) :
            \E k \in DOMAIN emitted :
                j < k /\ k < m /\ emitted[k].call /= f

\* C17: whichever callbacks are set, a finish that ran with every other
\* call for its id returned before it began leaves no sequence for the id
\* in the map; with neither callback set nothing is invoked, and with only
\* OnError set a finish that loaded a sequence with an Error entry invokes
\* OnError and nothing else.
C17_CallbacksOptional ==
    /\ (~OnError /\ ~OnLogEvent) => emitted = <<>>
    /\ \A f \in Ends :
          Returned(calls[f])
          => /\ (\A i \in DOMAIN calls :
                    (i /= f /\ calls[i].threadId = calls[f].threadId)
                    => Before(i, f))
                => calls[f].threadId \notin DOMAIN logs
             /\ (OnError /\ ~OnLogEvent /\ HasError(calls[f].loaded))
                => /\ MainOf(f) = {}
                   /\ ErrorOf(f) /= {}

\* The same with the cells the finish's loop read in place of the sequence
\* it loaded.
C17_OfCellsRead ==
    /\ (~OnError /\ ~OnLogEvent) => emitted = <<>>
    /\ \A f \in Ends :
          Returned(calls[f])
          => /\ (\A i \in DOMAIN calls :
                    (i /= f /\ calls[i].threadId = calls[f].threadId)
                    => Before(i, f))
                => calls[f].threadId \notin DOMAIN logs
             /\ (OnError /\ ~OnLogEvent /\ HasError(calls[f].taken))
                => /\ MainOf(f) = {}
                   /\ \E j \in ErrorOf(f) :
                         emitted[j].log.Entries = Errs(calls[f].taken)

\* Every id an entry can be stored under: a caller's, a handle's, and the
\* empty ThreadId of logUUIDError's entry.
Ids == ReqIds \cup {NilId, ""}

\* The aggregates passed to the callbacks for id, in order.
EmittedFor(id) == SelectSeq(emitted, LAMBDA v : v.log.ThreadId = id)

\* The ids the step works on: the id of the call that begins (the empty
\* ThreadId for Sess, which can only store logUUIDError's entry), or the id
\* of the call whose next step is taken.
StepIds ==
    IF Len(calls') > Len(calls)
    THEN {IF calls'[Len(calls')].op = "Sess"
          THEN ""
          ELSE calls'[Len(calls')].threadId}
    ELSE {IF pc[p] \in {"insert_new", "insert_append", "insert_copy",
                        "insert_store"}
          THEN e[p].ThreadId
          ELSE calls[cur[p]].threadId :
             p \in {q \in Procs : pc'[q] /= pc[q] \/ idx'[q] /= idx[q]}}

\* C18: a step of a record call, a finish or SeenError for one id leaves
\* the sequence buffered for every other id, and the aggregates emitted
\* for it, as they were.
C18_IdsAreIndependent ==
    [][\A y \in Ids :
          y \notin StepIds
          => /\ Buffered(y)' = Buffered(y)
             /\ EmittedFor(y)' = EmittedFor(y)]_vars

\* A finish drained the entries of its id while an entry recorded before
\* it for another id is still buffered.
C18_Witness ==
    \E f \in Ends :
        /\ Returned(calls[f])
        /\ calls[f].taken /= <<>>
        /\ \E id \in DOMAIN logs :
              /\ id /= calls[f].threadId
              /\ \E i \in Built(id) : Before(i, f) /\ i \in Ptrs(Buffered(id))

\* C19: every entry of an aggregate passed to a callback, and every entry
\* buffered under an id, has the ThreadId of the aggregate (of the id).
C19_AggregatesOfOneId ==
    /\ \A j \in DOMAIN emitted :
          \A k \in DOMAIN emitted[j].log.Entries :
             emitted[j].log.Entries[k].ThreadId = emitted[j].log.ThreadId
    /\ \A id \in DOMAIN logs :
          \A k \in DOMAIN Buffered(id) : Buffered(id)[k].ThreadId = id

\* An aggregate with an entry was emitted for one id after an entry had
\* been recorded for another.
C19_Witness ==
    \E j \in DOMAIN emitted :
        /\ emitted[j].log.Entries /= <<>>
        /\ \E r \in Records :
              /\ calls[r].ptr /= 0
              /\ calls[r].threadId /= emitted[j].log.ThreadId
              /\ Before(r, emitted[j].call)

\* C20: every id of the map has a sequence of at least one entry, one of
\* them drained by no finish; an id no entry is buffered for is not in the
\* map.
C20_NoEmptySequenceStored ==
    \A id \in Ids :
        /\ id \in DOMAIN logs <=> Buffered(id) /= <<>>
        /\ id \in DOMAIN logs
           => /\ logs[id].arr /= 0
              /\ logs[id].len >= 1
              /\ Ptrs(Buffered(id)) \ Drained(id) /= {}

\* The part of C20 on the sequences alone: every id of the map has a
\* sequence of at least one entry.
C20_SequencesNonEmpty ==
    \A id \in Ids :
        /\ id \in DOMAIN logs <=> Buffered(id) /= <<>>
        /\ id \in DOMAIN logs => (logs[id].arr /= 0 /\ logs[id].len >= 1)

====
